---- MODULE Spec2Model ----
(***************************************************************************)
(* A model of the TUIC command codec (protocol/src/command.rs) and of the  *)
(* server accept loop (server/src/server.rs).                              *)
(*                                                                         *)
(* Bytes are naturals 0..255.  A u16 is a natural 0..65535.  A u32 does    *)
(* not fit TLC's integers, so a u32 is the pair <<hi, lo>> of its two      *)
(* 16-bit halves: its value is hi * 65536 + lo.                            *)
(***************************************************************************)
EXTENDS Integers, Sequences, FiniteSets, TLC

VARIABLES
    \* the build the code runs as
    bigEndianHost,  \* target_endian of the build: TRUE on a big-endian host
    \* the codec harness
    cmd,            \* the Command handed to write_to_buf, or NoCmd
    buf,            \* the bytes of the buffer / stream, in order
    bufAddr,        \* address of read_from's local `buf: [u8; 6]`, modulo 4
    res,            \* what the last read_from call produced
    pc,             \* position of the codec harness
    \* struct Server
    expected_token_digest,
    authentication_timeout,
    max_udp_packet_size,
    \* Server::run and the connection handlers it spawned
    running,        \* run is in its loop: incoming has not ended
    spawned,        \* the connections yielded so far, in order
    conn,           \* per connection: the state of its handler
    \* the UDP session table of one authenticated connection
    udp,            \* the table, the UDP sends made, the errors raised
    pending,        \* per message: its fragments still on their way
    order,          \* per message: its fragments in the session, as they came
    evicted,        \* per assoc_id: the Dissociate commands processed
    \* a sink written through Command::write_to
    writer          \* the commands written and the write_all calls made

hostVars == <<bigEndianHost>>
udpVars == <<udp, pending, order, evicted>>
codecVars == <<cmd, buf, bufAddr, res, pc>>
serverVars == <<expected_token_digest, authentication_timeout, max_udp_packet_size,
                running, spawned, conn>>
writeVars == <<writer>>
vars == <<hostVars, codecVars, serverVars, udpVars, writeVars>>

----------------------------------------------------------------------------
(* Bounds of the model *)

\* longest domain name of a sampled DomainAddress
MaxDomainLen == 2
\* most bytes that follow the sampled 2-byte header of a raw stream
MaxTail == 1
\* connections the endpoint yields
MaxConns == 2
\* streams and datagrams buffered at a time, over all connections
MaxBuffered == 1
\* fragments a sampled UDP message is cut into
MaxFrags == 2

\* the commands written to one sink
MaxWrites == 3

----------------------------------------------------------------------------
(* Bytes and fixed-width integers *)

Byte == 0..255

\* sequences over S of length 0..n
RECURSIVE SeqsUpTo(_, _)
SeqsUpTo(S, n) ==
    IF n = 0 THEN {<<>>}
    ELSE LET shorter == SeqsUpTo(S, n - 1)
         IN shorter \cup {Append(s, x) : s \in {t \in shorter : Len(t) = n - 1}, x \in S}

\* s without its first n elements
Drop(s, n) == SubSeq(s, n + 1, Len(s))
\* the first n elements of s
Take(s, n) == SubSeq(s, 1, n)

\* BufMut::put_u16: big-endian
PutU16(x) == <<x \div 256, x % 256>>
\* BufMut::put_u32: big-endian
PutU32(x) == PutU16(x[1]) \o PutU16(x[2])

\* AsyncReadExt::read_u32 on 4 bytes: big-endian
ReadU32(b) == <<b[1] * 256 + b[2], b[3] * 256 + b[4]>>
\* AsyncReadExt::read_u16 on 2 bytes: big-endian
ReadU16(b) == b[1] * 256 + b[2]

\* u16::swap_bytes
Swap16(x) == (x % 256) * 256 + (x \div 256)
\* u32::swap_bytes
Swap32(x) == <<Swap16(x[2]), Swap16(x[1])>>

\* *(p as *const u16): the host's native-endian load of 2 bytes
NativeLoadU16(b, be) ==
    IF be THEN b[1] * 256 + b[2] ELSE b[2] * 256 + b[1]
\* *(p as *const u32): the host's native-endian load of 4 bytes
NativeLoadU32(b, be) ==
    IF be THEN <<b[1] * 256 + b[2], b[3] * 256 + b[4]>>
          ELSE <<b[4] * 256 + b[3], b[2] * 256 + b[1]>>

\* u16::from_be: identity on a big-endian host, swap_bytes otherwise
U16FromBe(x, be) == IF be THEN x ELSE Swap16(x)
\* u32::from_be
U32FromBe(x, be) == IF be THEN x ELSE Swap32(x)

----------------------------------------------------------------------------
(* Address *)

ADDR_TYPE_DOMAIN == 255
ADDR_TYPE_IPV4 == 1
ADDR_TYPE_IPV6 == 4

DomainAddress(host, port) == [type |-> "Domain", host |-> host, port |-> port]
SocketAddressV4(ip, port) == [type |-> "V4", host |-> ip, port |-> port]
SocketAddressV6(ip, port) == [type |-> "V6", host |-> ip, port |-> port]

\* Address::write_to_buf
AddrWriteToBuf(a) ==
    CASE a.type = "Domain" ->
            <<ADDR_TYPE_DOMAIN, Len(a.host)>> \o a.host \o PutU16(a.port)
      [] a.type = "V4" -> <<ADDR_TYPE_IPV4>> \o a.host \o PutU16(a.port)
      [] a.type = "V6" -> <<ADDR_TYPE_IPV6>> \o a.host \o PutU16(a.port)

\* Address::serialized_len
AddrSerializedLen(a) ==
    CASE a.type = "Domain" -> 1 + 1 + Len(a.host) + 2
      [] a.type = "V4" -> 1 + 4 + 2
      [] a.type = "V6" -> 1 + 16 + 2

\* results of a read: a value and the bytes consumed, or an error
Ok(v, n) == [kind |-> "Ok", val |-> v, consumed |-> n]
Err(e, v, n) == [kind |-> "Err", val |-> [err |-> e, arg |-> v], consumed |-> n]
\* the process stopped inside the call (panic or signal): nothing is returned
Trap == [kind |-> "Trap", val |-> [err |-> "misaligned"], consumed |-> 0]

\* read_exact of n bytes fails with an Io error when fewer remain
IoErr(s) == Err("Io", 0, Len(s))

\* Address::read_from on the bytes s
AddrReadFrom(s) ==
    IF Len(s) < 1 THEN IoErr(s)
    ELSE CASE s[1] = ADDR_TYPE_IPV4 ->
                IF Len(s) < 7 THEN IoErr(s)
                ELSE Ok(SocketAddressV4(SubSeq(s, 2, 5), ReadU16(SubSeq(s, 6, 7))), 7)
           [] s[1] = ADDR_TYPE_IPV6 ->
                IF Len(s) < 19 THEN IoErr(s)
                ELSE Ok(SocketAddressV6(SubSeq(s, 2, 17), ReadU16(SubSeq(s, 18, 19))), 19)
           [] s[1] = ADDR_TYPE_DOMAIN ->
                IF Len(s) < 2 THEN IoErr(s)
                ELSE LET n == s[2]
                     IN IF Len(s) < 2 + n + 2 THEN IoErr(s)
                        ELSE Ok(DomainAddress(SubSeq(s, 3, 2 + n),
                                              ReadU16(SubSeq(s, 3 + n, 4 + n))),
                                4 + n)
           [] OTHER -> Err("InvalidAddressType", s[1], 1)

----------------------------------------------------------------------------
(* Command *)

TUIC_PROTOCOL_VERSION == 5

TYPE_RESPONSE == 255
TYPE_AUTHENTICATE == 0
TYPE_CONNECT == 1
TYPE_PACKET == 2
TYPE_DISSOCIATE == 3
TYPE_HEARTBEAT == 4

RESPONSE_SUCCEEDED == 0
RESPONSE_FAILED == 255

DigestLen == 32

new_response(is_succeeded) == [type |-> "Response", ok |-> is_succeeded]
new_authenticate(digest) == [type |-> "Authenticate", digest |-> digest]
new_connect(addr) == [type |-> "Connect", addr |-> addr]
new_packet(assoc_id, len, addr) ==
    [type |-> "Packet", assoc_id |-> assoc_id, len |-> len, addr |-> addr]
new_dissociate(assoc_id) == [type |-> "Dissociate", assoc_id |-> assoc_id]
new_heartbeat == [type |-> "Heartbeat"]

NoCmd == [type |-> "None"]


\* the mutant of serialized_len: the len field of a Packet is not counted
serialized_len_NoLen(c) ==
    2 + CASE c.type = "Response" -> 1
          [] c.type = "Authenticate" -> 32
          [] c.type = "Connect" -> AddrSerializedLen(c.addr)
          [] c.type = "Packet" -> 4 + AddrSerializedLen(c.addr)
          [] c.type = "Dissociate" -> 4
          [] c.type = "Heartbeat" -> 0

\* Command::serialized_len
serialized_len(c) ==
    2 + CASE c.type = "Response" -> 1
          [] c.type = "Authenticate" -> 32
          [] c.type = "Connect" -> AddrSerializedLen(c.addr)
          [] c.type = "Packet" -> 6 + AddrSerializedLen(c.addr)
          [] c.type = "Dissociate" -> 4
          [] c.type = "Heartbeat" -> 0

\* Command::write_to_buf: the bytes appended to the buffer b
write_to_buf(c, b) ==
    b \o <<TUIC_PROTOCOL_VERSION>> \o
    CASE c.type = "Response" ->
            <<TYPE_RESPONSE>> \o
            (IF c.ok THEN <<RESPONSE_SUCCEEDED>> ELSE <<RESPONSE_FAILED>>)
      [] c.type = "Authenticate" -> <<TYPE_AUTHENTICATE>> \o c.digest
      [] c.type = "Connect" -> <<TYPE_CONNECT>> \o AddrWriteToBuf(c.addr)
      [] c.type = "Packet" ->
            <<TYPE_PACKET>> \o PutU32(c.assoc_id) \o PutU16(c.len)
                \o AddrWriteToBuf(c.addr)
      [] c.type = "Dissociate" -> <<TYPE_DISSOCIATE>> \o PutU32(c.assoc_id)
      [] c.type = "Heartbeat" -> <<TYPE_HEARTBEAT>>

\* the mutant of PacketInts: assoc_id is loaded through a *const u16, so its
\* upper half is lost
PacketInts_U16Id(b, be, addr, checked) ==
    IF checked /\ (addr % 4 # 0 \/ (addr + 4) % 2 # 0)
    THEN [trap |-> TRUE, assoc_id |-> <<0, 0>>, len |-> 0]
    ELSE [trap |-> FALSE,
          assoc_id |-> <<0, U16FromBe(NativeLoadU16(SubSeq(b, 3, 4), be), be)>>,
          len |-> U16FromBe(NativeLoadU16(SubSeq(b, 5, 6), be), be)]

\* the mutant of PacketInts: len is loaded without from_be
PacketInts_LenNative(b, be, addr, checked) ==
    IF checked /\ (addr % 4 # 0 \/ (addr + 4) % 2 # 0)
    THEN [trap |-> TRUE, assoc_id |-> <<0, 0>>, len |-> 0]
    ELSE [trap |-> FALSE,
          assoc_id |-> U32FromBe(NativeLoadU32(SubSeq(b, 1, 4), be), be),
          len |-> NativeLoadU16(SubSeq(b, 5, 6), be)]

\* Lines 108-109 of read_from: the two integers of a Packet are loaded through
\* pointers cast from the byte buffer `buf: [u8; 6]`, whose alignment is 1.
\* The u32 load is undefined unless the buffer's address is a multiple of 4,
\* the u16 load at offset 4 unless that address is even.  Of the outcomes of
\* a misaligned load, `checked` is the one where the dereference is checked
\* (debug assertions, a strict-alignment target) and execution stops there;
\* otherwise the native-endian load is performed.
PacketInts(b, be, addr, checked) ==
    IF checked /\ (addr % 4 # 0 \/ (addr + 4) % 2 # 0)
    THEN [trap |-> TRUE, assoc_id |-> <<0, 0>>, len |-> 0]
    ELSE [trap |-> FALSE,
          assoc_id |-> U32FromBe(NativeLoadU32(SubSeq(b, 1, 4), be), be),
          len |-> U16FromBe(NativeLoadU16(SubSeq(b, 5, 6), be), be)]

\* the mutant of ReadResponse: the two payload values exchanged
ReadResponse_Swapped(body) ==
    IF Len(body) < 1 THEN Err("Io", 0, 2 + Len(body))
    ELSE CASE body[1] = RESPONSE_SUCCEEDED -> Ok(new_response(FALSE), 3)
           [] body[1] = RESPONSE_FAILED -> Ok(new_response(TRUE), 3)
           [] OTHER -> Err("InvalidResponse", body[1], 3)

\* the arm TYPE_RESPONSE of read_from, on the bytes after the header
ReadResponse(body) ==
    IF Len(body) < 1 THEN Err("Io", 0, 2 + Len(body))
    ELSE CASE body[1] = RESPONSE_SUCCEEDED -> Ok(new_response(TRUE), 3)
           [] body[1] = RESPONSE_FAILED -> Ok(new_response(FALSE), 3)
           [] OTHER -> Err("InvalidResponse", body[1], 3)

\* the mutant of ReadDissociate: assoc_id is read with read_u16
ReadDissociate_U16(body) ==
    IF Len(body) < 2 THEN Err("Io", 0, 2 + Len(body))
    ELSE Ok(new_dissociate(<<0, ReadU16(Take(body, 2))>>), 4)

\* the arm TYPE_DISSOCIATE of read_from, on the bytes after the header
ReadDissociate(body) ==
    IF Len(body) < 4 THEN Err("Io", 0, 2 + Len(body))
    ELSE Ok(new_dissociate(ReadU32(Take(body, 4))), 6)

\* the result r of Address::read_from after n bytes, as the command built by mk
WithAddr(r, n, mk(_)) ==
    IF r.kind = "Ok" THEN Ok(mk(r.val), n + r.consumed)
    ELSE [r EXCEPT !.consumed = n + r.consumed]

\* the mutant of UnknownType: the version byte is reported, not the type byte
UnknownType_Ver(ver, ty) == Err("UnsupportedCommand", ver, 2)

\* the arm `_` of read_from's match
UnknownType(ver, ty) == Err("UnsupportedCommand", ty, 2)

\* the match of read_from on the type byte ty, with the bytes after the header
ReadBody(ver, ty, body, be, addr, checked) ==
    CASE ty = TYPE_RESPONSE -> ReadResponse(body)
      [] ty = TYPE_AUTHENTICATE ->
            IF Len(body) < DigestLen THEN Err("Io", 0, 2 + Len(body))
            ELSE Ok(new_authenticate(Take(body, DigestLen)), 2 + DigestLen)
      [] ty = TYPE_CONNECT ->
            LET mk(a) == new_connect(a)
            IN WithAddr(AddrReadFrom(body), 2, mk)
      [] ty = TYPE_PACKET ->
            IF Len(body) < 6 THEN Err("Io", 0, 2 + Len(body))
            ELSE LET ints == PacketInts(Take(body, 6), be, addr, checked)
                     mk(a) == new_packet(ints.assoc_id, ints.len, a)
                 IN IF ints.trap THEN Trap
                    ELSE WithAddr(AddrReadFrom(Drop(body, 6)), 8, mk)
      [] ty = TYPE_DISSOCIATE -> ReadDissociate(body)
      [] ty = TYPE_HEARTBEAT -> Ok(new_heartbeat, 2)
      [] OTHER -> UnknownType(ver, ty)

\* the mutant of read_from: the type byte is matched before the version is
\* compared, so a known type under a foreign version is decoded
read_from_TypeFirst(s, be, addr, checked) ==
    IF Len(s) < 2 THEN IoErr(s)
    ELSE LET r == ReadBody(s[1], s[2], Drop(s, 2), be, addr, checked)
         IN IF r.kind = "Err" /\ r.val.err = "UnsupportedCommand"
                  /\ s[1] # TUIC_PROTOCOL_VERSION
            THEN Err("UnsupportedVersion", s[1], 2)
            ELSE r

\* Command::read_from on the stream s, on a host of endianness be, with the
\* 6-byte buffer at address addr (modulo 4), misaligned loads checked or not
read_from(s, be, addr, checked) ==
    IF Len(s) < 2 THEN IoErr(s)
    ELSE LET ver == s[1]
             ty == s[2]
         IN IF ver # TUIC_PROTOCOL_VERSION THEN Err("UnsupportedVersion", ver, 2)
            ELSE ReadBody(ver, ty, Drop(s, 2), be, addr, checked)

\* read_from comes to its pointer casts on the stream s
UsesCast(s) ==
    Len(s) >= 8 /\ s[1] = TUIC_PROTOCOL_VERSION /\ s[2] = TYPE_PACKET

\* where the 6-byte buffer may lie and whether its misaligned loads are
\* checked; one placement stands for all on a stream that never reaches the
\* casts
Placements(s) ==
    IF UsesCast(s) THEN {[addr |-> a, checked |-> t] : a \in 0..3, t \in BOOLEAN}
    ELSE {[addr |-> 0, checked |-> FALSE]}

----------------------------------------------------------------------------
(* Sampled inputs *)

DomainBytes == {97, 46}
Ports == {0, 53, 8080}
V4Hosts == {<<127, 0, 0, 1>>, <<8, 8, 8, 8>>}
V6Hosts == {[i \in 1..16 |-> IF i = 16 THEN 1 ELSE 0], [i \in 1..16 |-> 17 * (i - 1)]}
Addresses ==
    {DomainAddress(h, p) : h \in SeqsUpTo(DomainBytes, MaxDomainLen) \ {<<>>}, p \in Ports}
    \cup {SocketAddressV4(h, p) : h \in V4Hosts, p \in Ports}
    \cup {SocketAddressV6(h, p) : h \in V6Hosts, p \in Ports}

\* 0, 1, 0x01020304, 0x80000000, 0xffffffff
AssocIds == {<<0, 0>>, <<0, 1>>, <<258, 772>>, <<32768, 0>>, <<65535, 65535>>}
\* 0, 1, 0x0102, 0xffff
PacketLens == {0, 1, 258, 65535}
Digests ==
    {[i \in 1..DigestLen |-> 0], [i \in 1..DigestLen |-> i], [i \in 1..DigestLen |-> 255]}

Commands ==
    {new_response(b) : b \in BOOLEAN}
    \cup {new_authenticate(d) : d \in Digests}
    \cup {new_connect(a) : a \in Addresses}
    \cup {new_packet(i, l, a) : i \in AssocIds, l \in PacketLens, a \in Addresses}
    \cup {new_dissociate(i) : i \in AssocIds}
    \cup {new_heartbeat}

\* version bytes of the sampled raw streams
VersionSamples == {0, TUIC_PROTOCOL_VERSION - 1, TUIC_PROTOCOL_VERSION,
                   TUIC_PROTOCOL_VERSION + 1, 255}
TailBytes == {0, 1, 255}
Tails == SeqsUpTo(TailBytes, MaxTail)

\* byte streams a peer may put on the wire: the empty stream, every single
\* byte, every type byte under the sampled version bytes followed by a short
\* tail, and every Response payload byte
RawStreams ==
    {<<>>}
    \cup {<<v>> : v \in Byte}
    \cup {<<v, t>> \o tl : v \in VersionSamples, t \in Byte, tl \in Tails}
    \cup {<<TUIC_PROTOCOL_VERSION, TYPE_RESPONSE, b>> \o tl : b \in Byte, tl \in Tails}

----------------------------------------------------------------------------
(* The server: Server::run and the handler of each connection it spawns     *)

ConnIds == 1..MaxConns

\* the arguments of Server::init
TokenDigests == {[i \in 1..DigestLen |-> i]}
AuthTimeouts == {2}
UdpPacketSizes == {1500}

NoDigest == <<>>
NoArgs == [exp_token_dgst |-> NoDigest, auth_timeout |-> 0, max_udp_pkt_size |-> 0]

\* the mutant of HandleArgs: the all-zero digest is passed on
HandleArgs_ZeroDigest ==
    [exp_token_dgst |-> [i \in 1..DigestLen |-> 0],
     auth_timeout |-> authentication_timeout,
     max_udp_pkt_size |-> max_udp_packet_size]

\* the mutant of HandleArgs: the timeout passed on is one tick too long
HandleArgs_LateTimeout ==
    [exp_token_dgst |-> expected_token_digest,
     auth_timeout |-> authentication_timeout + 1,
     max_udp_pkt_size |-> max_udp_packet_size]

\* the arguments run passes to Connection::handle
HandleArgs ==
    [exp_token_dgst |-> expected_token_digest,
     auth_timeout |-> authentication_timeout,
     max_udp_pkt_size |-> max_udp_packet_size]

\* a connection the endpoint has not yielded
NoConn ==
    [st |-> "None", code |-> "None", args |-> NoArgs, elapsed |-> 0,
     first |-> "None", gotDigest |-> NoDigest, buffered |-> <<>>,
     effects |-> {}]

\* Connection::handle as it starts: the connection awaits its Authenticate,
\* the deadline armed auth_timeout ticks ahead
Handle(args) == [NoConn EXCEPT !.st = "AwaitingAuth", !.args = args]

\* the handler closes the connection with an application error code; the
\* streams and datagrams it still buffers go with it, and so does its timer
Close(k, code) ==
    [k EXCEPT !.st = "Closed", !.code = code, !.buffered = <<>>, !.elapsed = 0]

\* the handler's task stops in a panic: the connection is dropped with no
\* close code of the protocol
Panic(k) == Close(k, "Panic")

\* the mutant of OnFirstCommand: what was buffered during authentication is
\* dropped when it succeeds
OnFirstCommand_DropBuffered(k, r) ==
    CASE r.kind = "Trap" -> Panic(k)
      [] r.kind = "Err" -> Close(k, "ProtocolError")
      [] r.kind = "Ok" /\ r.val.type = "Authenticate" ->
            IF r.val.digest = k.args.exp_token_dgst
            THEN [k EXCEPT !.st = "Authenticated", !.elapsed = 0, !.buffered = <<>>]
            ELSE Close(k, "AuthenticationFailed")
      [] OTHER -> Close(k, "Unauthenticated")

\* the one Command of the first stream, read by Command::read_from with result r
OnFirstCommand(k, r) ==
    CASE r.kind = "Trap" -> Panic(k)
      [] r.kind = "Err" -> Close(k, "ProtocolError")
      [] r.kind = "Ok" /\ r.val.type = "Authenticate" ->
            IF r.val.digest = k.args.exp_token_dgst
            THEN [k EXCEPT !.st = "Authenticated", !.elapsed = 0]
            ELSE Close(k, "AuthenticationFailed")
      [] OTHER -> Close(k, "Unauthenticated")

\* UdpHeader::write_to_buf: the body of a Packet command
UdpHeaderWriteToBuf(c) ==
    PutU32(c.assoc_id) \o PutU16(c.len) \o AddrWriteToBuf(c.addr)

\* UdpHeader::read_from: the integers assembled byte by byte, big-endian
UdpHeaderReadFrom(s) ==
    IF Len(s) < 6 THEN IoErr(s)
    ELSE LET mk(a) == new_packet(ReadU32(Take(s, 4)), ReadU16(SubSeq(s, 5, 6)), a)
         IN WithAddr(AddrReadFrom(Drop(s, 6)), 6, mk)

\* what an item (a stream or a datagram) holds on the wire
ItemBytes(it) ==
    IF it.chan = "dgram" THEN UdpHeaderWriteToBuf(it.cmd) ELSE write_to_buf(it.cmd, <<>>)

\* what Command::read_from may produce on the stream s: one result for each
\* outcome of its loads
ReadResults(s, be) ==
    {read_from(s, be, p.addr, p.checked) : p \in Placements(s)}

\* what an acceptor may read from an item
ItemRead(it, be) ==
    IF it.chan = "dgram" THEN {UdpHeaderReadFrom(ItemBytes(it))}
    ELSE ReadResults(ItemBytes(it), be)

\* an authenticated connection's acceptors: a bidirectional stream carries a
\* Connect, dialled and answered with a Response; a unidirectional stream or
\* a datagram carries a Packet for the UDP session table; the control stream
\* carries Dissociate and Heartbeat.  Anything else ends its stream only.
Dispatch(k, it, r) ==
    CASE r.kind # "Ok" -> k
      [] it.chan = "bi" /\ r.val.type = "Connect" ->
            [k EXCEPT !.effects = @ \cup {"dial", "response"}]
      [] it.chan \in {"uni", "dgram"} /\ r.val.type = "Packet" ->
            [k EXCEPT !.effects = @ \cup {"udp"}]
      [] it.chan = "ctrl" /\ r.val.type = "Dissociate" ->
            [k EXCEPT !.effects = @ \cup {"evict"}]
      [] OTHER -> k

\* sampled traffic
SampleAddr == SocketAddressV4(<<8, 8, 8, 8>>, 53)
SamplePacket == new_packet(<<0, 7>>, 5, SampleAddr)

\* what a client may put on the first bidirectional stream
FirstStreams ==
    {[sent |-> c.type, digest |-> IF c.type = "Authenticate" THEN c.digest ELSE NoDigest,
      bytes |-> write_to_buf(c, <<>>)] :
        c \in {new_authenticate(d) : d \in TokenDigests \cup {[i \in 1..DigestLen |-> 0]}}
              \cup {new_connect(SampleAddr), SamplePacket, new_dissociate(<<0, 7>>),
                    new_heartbeat, new_response(TRUE)}}
    \cup {[sent |-> "Bad", digest |-> NoDigest, bytes |-> b] :
            b \in {<<TUIC_PROTOCOL_VERSION + 1, TYPE_AUTHENTICATE>>,
                   <<TUIC_PROTOCOL_VERSION, 9>>}}

\* the other streams and the datagrams of a connection
Items ==
    {[chan |-> "bi", cmd |-> new_connect(SampleAddr)],
     [chan |-> "uni", cmd |-> SamplePacket],
     [chan |-> "dgram", cmd |-> SamplePacket]}

\* what follows the Authenticate on the control stream
ControlItems ==
    {[chan |-> "ctrl", cmd |-> new_dissociate(<<0, 7>>)],
     [chan |-> "ctrl", cmd |-> new_heartbeat]}

\* each first stream with each result Command::read_from may produce on it,
\* per host byte order
FirstReads ==
    [be \in BOOLEAN |->
        UNION {{[m |-> m, r |-> r] : r \in ReadResults(m.bytes, be)} : m \in FirstStreams}]

\* what an acceptor may read from each item, per host byte order
ItemReads ==
    [be \in BOOLEAN |-> [it \in Items \cup ControlItems |-> ItemRead(it, be)]]

\* the mutant of RunAccept: the handler is awaited, not spawned, so the next
\* connection is taken only when the handlers before it are done
RunAccept_Await ==
    /\ running
    /\ Len(spawned) < MaxConns
    /\ \A c \in 1..Len(spawned) : conn[c].st = "Closed"
    /\ LET c == Len(spawned) + 1
       IN /\ spawned' = Append(spawned, c)
          /\ conn' = [conn EXCEPT ![c] = Handle(HandleArgs)]
    /\ UNCHANGED <<writeVars, udpVars, hostVars, codecVars, expected_token_digest,
                   authentication_timeout, max_udp_packet_size, running>>

\* run: incoming.next() yields a connection and its handler is spawned
RunAccept ==
    /\ running
    /\ Len(spawned) < MaxConns
    /\ LET c == Len(spawned) + 1
       IN /\ spawned' = Append(spawned, c)
          /\ conn' = [conn EXCEPT ![c] = Handle(HandleArgs)]
    /\ UNCHANGED <<writeVars, udpVars, hostVars, codecVars, expected_token_digest, authentication_timeout,
                   max_udp_packet_size, running>>

\* run: incoming.next() yields None, the loop ends and run returns
RunEnd ==
    /\ running
    /\ running' = FALSE
    /\ UNCHANGED <<writeVars, udpVars, hostVars, codecVars, expected_token_digest, authentication_timeout,
                   max_udp_packet_size, spawned, conn>>

\* the first bidirectional stream of a connection is accepted and its one
\* Command read
AuthStream ==
    /\ \E c \in ConnIds :
        /\ conn[c].st = "AwaitingAuth"
        /\ \E x \in FirstReads[bigEndianHost] :
            conn' = [conn EXCEPT ![c] =
                OnFirstCommand([@ EXCEPT !.first = x.m.sent, !.gotDigest = x.m.digest],
                               x.r)]
    /\ UNCHANGED <<writeVars, udpVars, hostVars, codecVars, expected_token_digest, authentication_timeout,
                   max_udp_packet_size, running, spawned>>

\* the streams and datagrams buffered by the connections 1..n
RECURSIVE Buffered(_)
Buffered(n) == IF n = 0 THEN 0 ELSE Len(conn[n].buffered) + Buffered(n - 1)

\* a stream or datagram reaches a connection that awaits authentication: it
\* is buffered
Arrive ==
    /\ Buffered(MaxConns) < MaxBuffered
    /\ \E c \in ConnIds, it \in Items :
        /\ conn[c].st = "AwaitingAuth"
        /\ conn' = [conn EXCEPT ![c].buffered = Append(@, it)]
    /\ UNCHANGED <<writeVars, udpVars, hostVars, codecVars, expected_token_digest, authentication_timeout,
                   max_udp_packet_size, running, spawned>>

\* an authenticated connection releases the oldest item it buffered
Release ==
    /\ \E c \in ConnIds :
        /\ conn[c].st = "Authenticated"
        /\ conn[c].buffered # <<>>
        /\ LET it == Head(conn[c].buffered)
               k == [conn[c] EXCEPT !.buffered = Tail(@)]
           IN \E r \in ItemReads[bigEndianHost][it] :
                conn' = [conn EXCEPT ![c] = Dispatch(k, it, r)]
    /\ UNCHANGED <<writeVars, udpVars, hostVars, codecVars, expected_token_digest, authentication_timeout,
                   max_udp_packet_size, running, spawned>>

\* a stream, a datagram or a control command reaches an authenticated
\* connection and is dispatched
Serve ==
    /\ \E c \in ConnIds :
        /\ conn[c].st = "Authenticated"
        /\ conn[c].buffered = <<>>
        /\ \E it \in Items \cup ControlItems : \E r \in ItemReads[bigEndianHost][it] :
            conn' = [conn EXCEPT ![c] = Dispatch(@, it, r)]
    /\ UNCHANGED <<writeVars, udpVars, hostVars, codecVars, expected_token_digest, authentication_timeout,
                   max_udp_packet_size, running, spawned>>

\* one tick of a connection's timer: armed while the connection awaits
\* authentication, it closes the connection when auth_timeout ticks have passed
Expire(k) ==
    IF k.st # "AwaitingAuth" THEN k
    ELSE IF k.elapsed + 1 >= k.args.auth_timeout THEN Close(k, "AuthTimeout")
    ELSE [k EXCEPT !.elapsed = @ + 1]

\* time passes for every armed timer; the deadlines reached fire
Tick ==
    /\ \E c \in ConnIds : conn[c].st = "AwaitingAuth"
    /\ conn' = [c \in ConnIds |-> Expire(conn[c])]
    /\ UNCHANGED <<writeVars, udpVars, hostVars, codecVars, expected_token_digest, authentication_timeout,
                   max_udp_packet_size, running, spawned>>

----------------------------------------------------------------------------
(* The UDP session table of an authenticated connection: the receive path   *)
(* (client -> server -> remote) and eviction.                               *)

\* the table at the start: no session, nothing sent
NoUdp == [table |-> <<>>, sent |-> {}, errors |-> 0, opened |-> 0]

\* the datagrams sent so far for (id, addr)
SentTo(u, id, addr) == {d \in u.sent : d.assoc_id = id /\ d.addr = addr}

\* the concatenation of the sequences of ss
RECURSIVE Concat(_)
Concat(ss) == IF ss = <<>> THEN <<>> ELSE Head(ss) \o Concat(Tail(ss))

\* f with x mapped to v, x added to its domain if need be
Put(f, x, v) == [y \in DOMAIN f \cup {x} |-> IF y = x THEN v ELSE f[y]]
\* f without x
Remove(f, x) == [y \in DOMAIN f \ {x} |-> f[y]]

\* a session is created lazily on the first Packet of an assoc_id: it owns a
\* socket no earlier session had and an empty reassembly map
OpenSession(u, id) ==
    [u EXCEPT !.opened = @ + 1,
              !.table = Put(@, id, [socket |-> u.opened + 1, slots |-> <<>>])]

\* the bytes accumulated for (id, addr)
Accumulated(u, id, addr) ==
    IF id \in DOMAIN u.table /\ addr \in DOMAIN u.table[id].slots
    THEN u.table[id].slots[addr].bytes
    ELSE <<>>

\* the receive path on Packet(assoc_id, len, addr) p carrying payload: append
\* to the slot of (assoc_id, addr); beyond len it is a protocol error; at len
\* the bytes are sent as one datagram to addr and the slot is cleared
OnPacket(u, p, payload) ==
    LET id == p.assoc_id
        u1 == IF id \in DOMAIN u.table THEN u ELSE OpenSession(u, id)
        all == Accumulated(u1, id, p.addr) \o payload
    IN IF Len(all) > p.len THEN [u1 EXCEPT !.errors = @ + 1]
       ELSE IF Len(all) = p.len
       THEN [u1 EXCEPT !.sent = @ \cup {[assoc_id |-> id, addr |-> p.addr,
                                          nth |-> Cardinality(SentTo(u1, id, p.addr)) + 1,
                                          socket |-> u1.table[id].socket,
                                          payload |-> all]},
                       !.table[id].slots = Remove(@, p.addr)]
       ELSE [u1 EXCEPT !.table[id].slots =
                Put(@, p.addr, [total |-> p.len, bytes |-> all])]

\* eviction on Dissociate(id): the entry is dropped, its socket and its
\* partial buffers with it
OnDissociate(u, id) == [u EXCEPT !.table = Remove(@, id)]

\* sampled traffic: two assoc_ids that differ in their upper half only
IdA == <<1, 7>>
IdB == <<0, 7>>
UdpAssocIds == {IdA, IdB}
OtherAddr == DomainAddress(<<97>>, 53)

\* the messages a client sends: two well-formed ones, of MaxFrags and of two
\* one-byte fragments, to the same address under different assoc_ids; an
\* empty one; one whose fragments total more than the len it declares
Messages ==
    <<[assoc_id |-> IdA, addr |-> SampleAddr, len |-> MaxFrags, chan |-> "uni",
       frags |-> [i \in 1..MaxFrags |-> <<10 + i>>]],
      [assoc_id |-> IdB, addr |-> SampleAddr, len |-> 2, chan |-> "dgram",
       frags |-> <<<<21>>, <<22>>>>],
      [assoc_id |-> IdA, addr |-> OtherAddr, len |-> 0, chan |-> "dgram",
       frags |-> <<<<>>>>],
      [assoc_id |-> IdB, addr |-> OtherAddr, len |-> 2, chan |-> "dgram",
       frags |-> <<<<8>>, <<9, 9>>>>]>>
MsgIds == DOMAIN Messages

\* what the acceptor of its channel may read as the header of a fragment of
\* the message m, per host byte order
PacketReads ==
    [be \in BOOLEAN |-> [m \in MsgIds |->
        ItemRead([chan |-> Messages[m].chan,
                  cmd |-> new_packet(Messages[m].assoc_id, Messages[m].len,
                                     Messages[m].addr)], be)]]

\* what the control stream's reader may read of Dissociate(id)
DissociateReads ==
    [be \in BOOLEAN |-> [id \in UdpAssocIds |->
        ItemRead([chan |-> "ctrl", cmd |-> new_dissociate(id)], be)]]

\* the order of arrival is kept for the sessions that exist
KeepOrder(o, u) ==
    [m \in MsgIds |-> IF Messages[m].assoc_id \in DOMAIN u.table THEN o[m] ELSE <<>>]

\* a fragment of a message reaches the server, in any order; one whose header
\* is read goes down the receive path, one whose reader stopped is lost
Deliver ==
    /\ \E m \in MsgIds : \E i \in pending[m] : \E r \in PacketReads[bigEndianHost][m] :
        /\ pending' = [pending EXCEPT ![m] = @ \ {i}]
        /\ IF r.kind = "Ok"
           THEN /\ udp' = OnPacket(udp, r.val, Messages[m].frags[i])
                /\ order' = [order EXCEPT ![m] = Append(@, i)]
           ELSE UNCHANGED <<udp, order>>
    /\ UNCHANGED <<writeVars, hostVars, codecVars, serverVars, evicted>>

\* the client sends Dissociate(id) on the control stream, once for an
\* assoc_id, and the server processes it
Dissociate ==
    /\ \E id \in UdpAssocIds : \E r \in DissociateReads[bigEndianHost][id] :
        /\ evicted[id] = 0
        /\ r.kind = "Ok"
        /\ udp' = OnDissociate(udp, r.val.assoc_id)
        /\ order' = KeepOrder(order, udp')
        /\ evicted' = [evicted EXCEPT ![id] = @ + 1]
    /\ UNCHANGED <<writeVars, hostVars, codecVars, serverVars, pending>>

\* no traffic yet
UdpIdle ==
    /\ udp = NoUdp
    /\ pending = [m \in MsgIds |-> DOMAIN Messages[m].frags]
    /\ order = [m \in MsgIds |-> <<>>]
    /\ evicted = [id \in UdpAssocIds |-> 0]

----------------------------------------------------------------------------
(* Command::write_to on a sink                                               *)

\* the mutant of write_to: the header and the body go out in two write_all
\* calls
write_to_TwoWrites(c, w) ==
    LET n == serialized_len(c)
        b == write_to_buf(c, <<>>)
    IN w \o <<[cap |-> n, bytes |-> Take(b, 2)], [cap |-> n, bytes |-> Drop(b, 2)]>>

\* c.write_to(&mut w), w the write_all calls the sink has received: a buffer
\* of capacity serialized_len() is filled by write_to_buf and handed to one
\* write_all
write_to(c, w) ==
    LET n == serialized_len(c)
        b == write_to_buf(c, <<>>)
    IN Append(w, [cap |-> n, bytes |-> b])

\* the commands written: one of each variant
WriteSamples ==
    {new_response(TRUE), new_authenticate([i \in 1..DigestLen |-> i]),
     new_connect(SampleAddr), new_packet(IdA, 2, OtherAddr), new_dissociate(IdB),
     new_heartbeat}

\* nothing written yet
WriteIdle == writer = [sent |-> <<>>, sink |-> <<>>]

\* a task that owns the sink (&mut W) writes a command; the borrow is
\* exclusive, so the calls of two write_to never overlap
WriteTo ==
    /\ Len(writer.sent) < MaxWrites
    /\ \E c \in WriteSamples :
        writer' = [sent |-> Append(writer.sent, c), sink |-> write_to(c, writer.sink)]
    /\ UNCHANGED <<hostVars, codecVars, serverVars, udpVars>>

----------------------------------------------------------------------------
(* The codec harness: a command is encoded, or raw bytes arrive, and the     *)
(* stream is decoded.                                                        *)

NoRes == [kind |-> "None", val |-> [err |-> "none"], consumed |-> 0]

\* the codec harness at rest
CodecIdle ==
    /\ cmd = NoCmd
    /\ buf = <<>>
    /\ bufAddr = 0
    /\ res = NoRes
    /\ pc = "idle"

\* the state Server::init returns: nothing accepted yet
ServerInit ==
    /\ expected_token_digest \in TokenDigests
    /\ authentication_timeout \in AuthTimeouts
    /\ max_udp_packet_size \in UdpPacketSizes
    /\ running = TRUE
    /\ spawned = <<>>
    /\ conn = [c \in ConnIds |-> NoConn]

\* the codec alone: a server that is never started
Init ==
    /\ bigEndianHost \in BOOLEAN
    /\ CodecIdle
    /\ expected_token_digest = [i \in 1..DigestLen |-> i]
    /\ authentication_timeout = 2
    /\ max_udp_packet_size = 1500
    /\ running = FALSE
    /\ spawned = <<>>
    /\ conn = [c \in ConnIds |-> NoConn]
    /\ UdpIdle
    /\ WriteIdle

\* c.write_to_buf(&mut buf) on an empty buffer, for a command c
WriteToBuf ==
    /\ pc = "idle"
    /\ \E c \in Commands :
        /\ cmd' = c
        /\ buf' = write_to_buf(c, <<>>)
    /\ pc' = "written"
    /\ UNCHANGED <<writeVars, udpVars, hostVars, bufAddr, res, serverVars>>

\* the peer's bytes are the stream
Receive ==
    /\ pc = "idle"
    /\ cmd' = NoCmd
    /\ \E bs \in RawStreams : buf' = bs
    /\ pc' = "received"
    /\ UNCHANGED <<writeVars, udpVars, hostVars, bufAddr, res, serverVars>>

\* Command::read_from(&mut stream), its 6-byte buffer placed at some address
ReadFrom ==
    /\ pc \in {"written", "received", "framed", "truncated"}
    /\ \E p \in Placements(buf) :
        /\ bufAddr' = p.addr
        /\ res' = read_from(buf, bigEndianHost, p.addr, p.checked)
    /\ pc' = "read"
    /\ UNCHANGED <<writeVars, udpVars, hostVars, cmd, buf, serverVars>>

\* the harness starts over
Reset ==
    /\ pc = "read"
    /\ cmd' = NoCmd
    /\ buf' = <<>>
    /\ bufAddr' = 0
    /\ res' = NoRes
    /\ pc' = "idle"
    /\ UNCHANGED <<writeVars, udpVars, hostVars, serverVars>>

Next ==
    \/ WriteToBuf
    \/ Receive
    \/ ReadFrom
    \/ Reset

Spec == Init /\ [][Next]_vars

\* what may follow a command on its stream: a fragment of a UDP payload, one
\* of them the bytes of a Heartbeat
Payloads == {<<200>>, <<TUIC_PROTOCOL_VERSION, TYPE_HEARTBEAT, 0>>}

\* the sender goes on writing after the command: the stream holds the
\* command and what follows it
Frame ==
    /\ pc = "written"
    /\ \E pl \in Payloads : buf' = buf \o pl
    /\ pc' = "framed"
    /\ UNCHANGED <<writeVars, udpVars, hostVars, cmd, bufAddr, res, serverVars>>

\* the stream ends before the command is complete
Truncate ==
    /\ pc = "written"
    /\ \E n \in 0..(Len(buf) - 1) : buf' = Take(buf, n)
    /\ pc' = "truncated"
    /\ UNCHANGED <<writeVars, udpVars, hostVars, cmd, bufAddr, res, serverVars>>

NextStream ==
    \/ WriteToBuf
    \/ Frame
    \/ Truncate
    \/ ReadFrom
    \/ Reset

\* the codec on streams that go on after a command or end inside it
SpecStream == Init /\ [][NextStream]_vars

\* the server alone
InitServer ==
    /\ bigEndianHost \in BOOLEAN
    /\ CodecIdle
    /\ ServerInit
    /\ UdpIdle
    /\ WriteIdle

NextServer ==
    \/ RunAccept
    \/ RunEnd
    \/ AuthStream
    \/ Arrive
    \/ Release
    \/ Serve
    \/ Tick

SpecServer == InitServer /\ [][NextServer]_vars

\* the server with its released streams scheduled: a task spawned for a
\* released stream or datagram gets to run
SpecServerFair == SpecServer /\ WF_vars(Release)

\* the session table alone, of a connection taken as authenticated
InitUdp ==
    /\ bigEndianHost \in BOOLEAN
    /\ CodecIdle
    /\ ServerInit
    /\ UdpIdle
    /\ WriteIdle

NextUdp ==
    \/ Deliver
    \/ Dissociate

SpecUdp == InitUdp /\ [][NextUdp]_vars

\* the writer alone
InitWrite ==
    /\ bigEndianHost \in BOOLEAN
    /\ CodecIdle
    /\ ServerInit
    /\ UdpIdle
    /\ WriteIdle

NextWrite == WriteTo

SpecWrite == InitWrite /\ [][NextWrite]_vars

TypeOK ==
    /\ pc \in {"idle", "written", "received", "framed", "truncated", "read"}
    /\ res.kind \in {"None", "Ok", "Err", "Trap"}
    /\ \A i \in 1..Len(buf) : buf[i] \in Byte
    /\ \A c \in ConnIds :
        /\ conn[c].st \in {"None", "AwaitingAuth", "Authenticated", "Closed"}
        /\ (conn[c].st = "None") = (c > Len(spawned))

----------------------------------------------------------------------------
(* Claims about the command codec *)

KnownTypes == {TYPE_RESPONSE, TYPE_AUTHENTICATE, TYPE_CONNECT, TYPE_PACKET,
               TYPE_DISSOCIATE, TYPE_HEARTBEAT}

\* read_from returned the error e with the argument v
Failed(e, v) == res.kind = "Err" /\ res.val.err = e /\ res.val.arg = v

\* C1: once the bytes write_to_buf produced for a command have been decoded,
\* read_from has succeeded and returned that very command.
C1_RoundTrip ==
    (pc = "read" /\ cmd # NoCmd) => (res.kind = "Ok" /\ res.val = cmd)

\* C2: the bytes write_to_buf appends to an empty buffer are serialized_len()
\* many.
C2_EncodedLen ==
    (pc = "written") => Len(buf) = serialized_len(cmd)

\* a Packet with a two-byte domain name has been encoded: 2 + 6 + 6 bytes
C2_Witness ==
    /\ pc = "written"
    /\ cmd.type = "Packet"
    /\ cmd.addr.type = "Domain"
    /\ Len(buf) = 14

\* C7 as stated: whatever follows a foreign version byte (nothing at all
\* included), read_from returns UnsupportedVersion of that byte.
C7_AnyStream ==
    (pc = "read" /\ Len(buf) >= 1 /\ buf[1] # TUIC_PROTOCOL_VERSION)
        => Failed("UnsupportedVersion", buf[1])

\* C7 as amended: a stream of at least two bytes whose first byte differs from
\* TUIC_PROTOCOL_VERSION gives UnsupportedVersion of that byte, with only the
\* header read; a stream that ends after such a byte gives an Io error; in
\* neither case is a Command returned.
C7_UnsupportedVersion ==
    (pc = "read" /\ Len(buf) >= 1 /\ buf[1] # TUIC_PROTOCOL_VERSION)
        => /\ res.kind = "Err"
           /\ Len(buf) >= 2 => (Failed("UnsupportedVersion", buf[1]) /\ res.consumed = 2)
           /\ Len(buf) = 1 => Failed("Io", 0)

\* a Packet header under a foreign version, bytes following, was refused
C7_Witness ==
    /\ pc = "read"
    /\ Len(buf) >= 3
    /\ buf[1] = TUIC_PROTOCOL_VERSION + 1
    /\ buf[2] = TYPE_PACKET
    /\ Failed("UnsupportedVersion", TUIC_PROTOCOL_VERSION + 1)

\* C8: under the protocol's version, a type byte outside the six known ones
\* gives UnsupportedCommand of that byte, and only the two header bytes have
\* been read.
C8_UnsupportedCommand ==
    (pc = "read" /\ Len(buf) >= 2 /\ buf[1] = TUIC_PROTOCOL_VERSION
        /\ buf[2] \notin KnownTypes)
        => (Failed("UnsupportedCommand", buf[2]) /\ res.consumed = 2)

\* an unknown type with a byte after the header was refused, that byte unread
C8_Witness ==
    /\ pc = "read"
    /\ Len(buf) > 2
    /\ buf[1] = TUIC_PROTOCOL_VERSION
    /\ buf[2] = 254
    /\ Failed("UnsupportedCommand", 254)
    /\ res.consumed < Len(buf)

\* C9: decoding a Response reads one payload byte b: 0x00 is Response(true),
\* 0xff is Response(false), anything else the error InvalidResponse(b).
C9_Response ==
    (pc = "read" /\ Len(buf) >= 3 /\ buf[1] = TUIC_PROTOCOL_VERSION
        /\ buf[2] = TYPE_RESPONSE)
        => /\ res.consumed = 3
           /\ buf[3] = 0 => (res.kind = "Ok" /\ res.val = new_response(TRUE))
           /\ buf[3] = 255 => (res.kind = "Ok" /\ res.val = new_response(FALSE))
           /\ buf[3] \notin {0, 255} => Failed("InvalidResponse", buf[3])

\* a Response with payload 0x01 and a byte after it was refused
C9_Witness ==
    /\ pc = "read"
    /\ Len(buf) > 3
    /\ buf[1] = TUIC_PROTOCOL_VERSION
    /\ buf[2] = TYPE_RESPONSE
    /\ buf[3] = 1
    /\ Failed("InvalidResponse", 1)

\* the stream holds a whole Packet command
WholePacket ==
    /\ Len(buf) >= 8
    /\ buf[1] = TUIC_PROTOCOL_VERSION
    /\ buf[2] = TYPE_PACKET
    /\ AddrReadFrom(Drop(buf, 8)).kind = "Ok"

\* C10: on either host byte order, write_to_buf emits assoc_id and len most
\* significant byte first, and read_from yields, for the body bytes b0..b5 of
\* a Packet, assoc_id = b0*2^24 + b1*2^16 + b2*2^8 + b3 and len = b4*2^8 + b5;
\* the same for the assoc_id of a Dissociate.
C10_BigEndian ==
    /\ (pc = "written" /\ cmd.type = "Packet")
        => /\ buf[3] * 256 + buf[4] = cmd.assoc_id[1]
           /\ buf[5] * 256 + buf[6] = cmd.assoc_id[2]
           /\ buf[7] * 256 + buf[8] = cmd.len
    /\ (pc = "written" /\ cmd.type = "Dissociate")
        => /\ buf[3] * 256 + buf[4] = cmd.assoc_id[1]
           /\ buf[5] * 256 + buf[6] = cmd.assoc_id[2]
    /\ (pc = "read" /\ WholePacket)
        => /\ res.kind = "Ok"
           /\ res.val.assoc_id = <<buf[3] * 256 + buf[4], buf[5] * 256 + buf[6]>>
           /\ res.val.len = buf[7] * 256 + buf[8]
    /\ (pc = "read" /\ Len(buf) >= 6 /\ buf[1] = TUIC_PROTOCOL_VERSION
            /\ buf[2] = TYPE_DISSOCIATE)
        => /\ res.kind = "Ok"
           /\ res.val.assoc_id = <<buf[3] * 256 + buf[4], buf[5] * 256 + buf[6]>>

----------------------------------------------------------------------------
(* Claims about the server *)

NonAuthCommands == {"Connect", "Packet", "Dissociate", "Heartbeat", "Response"}

\* C3: a connection has performed an effect (a TCP dial, a Response, a UDP
\* session or send, an eviction) only after an Authenticate carrying the
\* server's expected digest arrived on it; while it awaits authentication it
\* has performed none, and a connection whose first command was not
\* Authenticate is closed with none performed.
C3_AuthBeforeEffects ==
    \A c \in ConnIds :
        /\ conn[c].effects # {}
            => (conn[c].first = "Authenticate"
                /\ conn[c].gotDigest = expected_token_digest)
        /\ conn[c].st \in {"None", "AwaitingAuth"} => conn[c].effects = {}
        /\ conn[c].first \in NonAuthCommands
            => (conn[c].st = "Closed" /\ conn[c].effects = {})

\* one connection has relayed a UDP packet and dialled while another was
\* refused for sending a Connect first
C3_Witness ==
    \E c, d \in ConnIds :
        /\ {"udp", "dial"} \subseteq conn[c].effects
        /\ conn[d].first = "Connect"
        /\ conn[d].st = "Closed"

\* C4: a connection whose first command was a Connect, Packet, Dissociate,
\* Heartbeat or Response is closed with the Unauthenticated code.
C4_Unauthenticated ==
    \A c \in ConnIds :
        conn[c].first \in NonAuthCommands
            => (conn[c].st = "Closed" /\ conn[c].code = "Unauthenticated")

\* C5: a connection never awaits authentication once authentication_timeout
\* ticks have passed since it was accepted, and the tick on which its
\* deadline is reached moves it to Closed with the AuthTimeout code.
C5_AuthTimeout ==
    /\ [](\A c \in ConnIds :
            conn[c].st = "AwaitingAuth" => conn[c].elapsed < authentication_timeout)
    /\ [][\A c \in ConnIds :
            (/\ conn[c].st = "AwaitingAuth"
             /\ conn[c].elapsed + 1 >= authentication_timeout
             /\ Tick)
                => (conn'[c].st = "Closed" /\ conn'[c].code = "AuthTimeout")]_vars

\* a connection that sent nothing on its first stream was closed by its
\* deadline, what it had buffered dropped
C5_Witness ==
    \E c \in ConnIds :
        /\ conn[c].st = "Closed"
        /\ conn[c].code = "AuthTimeout"
        /\ conn[c].first = "None"

\* C6: a connection whose Authenticate carried a digest other than the
\* expected one is closed with the AuthenticationFailed code; it is never
\* Authenticated, no Response was written on it and no command of it had an
\* effect, and nothing of it is kept to be processed.
C6_AuthenticationFailed ==
    \A c \in ConnIds :
        (conn[c].first = "Authenticate" /\ conn[c].gotDigest # expected_token_digest)
            => /\ conn[c].st = "Closed"
               /\ conn[c].code = "AuthenticationFailed"
               /\ conn[c].effects = {}
               /\ conn[c].buffered = <<>>

\* the all-zero digest was refused
C6_Witness ==
    \E c \in ConnIds :
        /\ conn[c].first = "Authenticate"
        /\ conn[c].gotDigest = [i \in 1..DigestLen |-> 0]
        /\ conn[c].code = "AuthenticationFailed"

----------------------------------------------------------------------------
(* Claims about the UDP session table *)

\* the messages whose fragments total the len they declare
WellFormed ==
    {m \in MsgIds : Len(Concat(Messages[m].frags)) = Messages[m].len}

\* the bytes of the fragments o of the message m, in the order of o
Bytes(m, o) == Concat([k \in 1..Len(o) |-> Messages[m].frags[o[k]]])

\* the elements of the sequence q
Range(q) == {q[k] : k \in 1..Len(q)}

\* every fragment of m has come down the receive path in its session
Complete(m) == Len(order[m]) = Len(Messages[m].frags)

\* C11: whatever the fragments of other messages do, a well-formed message
\* is reassembled from its own fragments only: what its slot holds is its
\* fragments so far, in the order they came; a datagram sent for its
\* (assoc_id, addr) has its len and its bytes and no others; and when its
\* fragments came in the order they were cut, the datagram sent is the message.
C11_OwnFragments ==
    \A m \in WellFormed :
        LET msg == Messages[m]
        IN /\ Accumulated(udp, msg.assoc_id, msg.addr)
                = IF Complete(m) THEN <<>> ELSE Bytes(m, order[m])
           /\ \A d \in SentTo(udp, msg.assoc_id, msg.addr) :
                /\ Len(d.payload) = msg.len
                /\ Range(d.payload) = Range(Concat(msg.frags))
           /\ (Complete(m) /\ \A k \in 1..Len(order[m]) : order[m][k] = k)
                => \E d \in SentTo(udp, msg.assoc_id, msg.addr) :
                        d.payload = Concat(msg.frags)

\* the first message was sent whole to the address for which a fragment of
\* the second, under the other assoc_id, lies in its slot
C11_Witness ==
    /\ Complete(1)
    /\ \E d \in SentTo(udp, IdA, SampleAddr) : d.payload = Concat(Messages[1].frags)
    /\ Len(order[2]) = 1
    /\ Accumulated(udp, IdB, SampleAddr) = Messages[2].frags[order[2][1]]

\* the datagrams the present session of the message m has sent for it
CurrentSends(m) ==
    LET msg == Messages[m]
    IN {d \in SentTo(udp, msg.assoc_id, msg.addr) :
            /\ msg.assoc_id \in DOMAIN udp.table
            /\ d.socket = udp.table[msg.assoc_id].socket}

SlotOf(m) ==
    LET msg == Messages[m]
    IN IF msg.assoc_id \in DOMAIN udp.table
            /\ msg.addr \in DOMAIN udp.table[msg.assoc_id].slots
       THEN {udp.table[msg.assoc_id].slots[msg.addr]}
       ELSE {}

\* C13: a slot never holds more bytes than the len its message declares; a
\* fragment on its way that would take its slot beyond len raises a protocol
\* error and nothing is sent for it; a Packet of len 0 is taken and sent as
\* one empty datagram.
C13_NeverExceeds ==
    \A m \in MsgIds :
        LET msg == Messages[m]
            acc == Accumulated(udp, msg.assoc_id, msg.addr)
        IN /\ \A sl \in SlotOf(m) :
                sl.total = msg.len /\ Len(sl.bytes) <= msg.len
           /\ \A i \in pending[m] : \A r \in PacketReads[bigEndianHost][m] :
                r.kind = "Ok" =>
                    LET after == OnPacket(udp, r.val, msg.frags[i])
                    IN /\ Len(acc) + Len(msg.frags[i]) > msg.len =>
                            /\ after.errors = udp.errors + 1
                            /\ after.sent = udp.sent
                       /\ msg.len = 0 =>
                            /\ after.errors = udp.errors
                            /\ Cardinality(after.sent) = Cardinality(udp.sent) + 1
                            /\ \A d \in after.sent \ udp.sent :
                                d.payload = <<>> /\ d.addr = msg.addr
           /\ \A d \in SentTo(udp, msg.assoc_id, msg.addr) : Len(d.payload) = msg.len

\* the two-byte fragment of the message declaring len 2 came after its
\* one-byte fragment and was refused, nothing sent for it; the empty message
\* was sent
C13_Witness ==
    /\ udp.errors = 1
    /\ order[4] = <<1, 2>>
    /\ SentTo(udp, IdB, OtherAddr) = {}
    /\ \E d \in SentTo(udp, IdA, OtherAddr) : d.payload = <<>>

\* the sockets the sessions of the table u own
Sockets(u) == {u.table[id].socket : id \in DOMAIN u.table}

\* C14: processing the Dissociate(id) a client sends leaves no entry for id
\* and the entries of the other assoc_ids as they were; a Packet of id that
\* comes next creates a session with a socket no session had before and no
\* bytes but that Packet's own.  No two sessions share a socket, and a
\* session created after an eviction holds only what arrived since.
C14_Evicted ==
    /\ \A id \in UdpAssocIds : \A r \in DissociateReads[bigEndianHost][id] :
        r.kind = "Ok" =>
            LET after == OnDissociate(udp, r.val.assoc_id)
            IN /\ id \notin DOMAIN after.table
               /\ \A other \in DOMAIN udp.table \ {id} :
                    other \in DOMAIN after.table
                        /\ after.table[other] = udp.table[other]
               /\ after.sent = udp.sent
               /\ \A m \in MsgIds : \A i \in DOMAIN Messages[m].frags :
                    Messages[m].assoc_id = id =>
                        \A p \in PacketReads[bigEndianHost][m] :
                            LET fresh == OnPacket(after, p.val, Messages[m].frags[i])
                            IN p.kind = "Ok" =>
                               /\ id \in DOMAIN fresh.table
                               /\ fresh.table[id].socket > udp.opened
                               /\ \A a \in DOMAIN fresh.table[id].slots :
                                    fresh.table[id].slots[a].bytes = Messages[m].frags[i]
    /\ Cardinality(Sockets(udp)) = Cardinality(DOMAIN udp.table)
    /\ \A id \in DOMAIN udp.table : udp.table[id].socket <= udp.opened
    /\ \A m \in MsgIds :
        Len(Accumulated(udp, Messages[m].assoc_id, Messages[m].addr))
            <= Len(Bytes(m, order[m]))

\* the session of IdA sent the empty message, was evicted with a fragment
\* of the first message in its slot, and a later fragment opened a session
\* with another socket, holding that fragment alone; the session of IdB
\* kept its slot throughout
C14_Witness ==
    /\ evicted[IdA] = 1
    /\ IdA \in DOMAIN udp.table
    /\ \E d \in SentTo(udp, IdA, OtherAddr) : d.socket < udp.table[IdA].socket
    /\ pending[1] = {}
    /\ Len(order[1]) = 1
    /\ Accumulated(udp, IdA, SampleAddr) = Messages[1].frags[order[1][1]]
    /\ Len(order[2]) = 1
    /\ Accumulated(udp, IdB, SampleAddr) # <<>>

----------------------------------------------------------------------------
(* Further claims about the server *)

C16_ArgsFromInit ==
    /\ [][/\ expected_token_digest' = expected_token_digest
          /\ authentication_timeout' = authentication_timeout
          /\ max_udp_packet_size' = max_udp_packet_size]_vars
    /\ [](\A c \in ConnIds :
            conn[c].st # "None"
            => /\ conn[c].args.exp_token_dgst = expected_token_digest
               /\ conn[c].args.auth_timeout = authentication_timeout
               /\ conn[c].args.max_udp_pkt_size = max_udp_packet_size)

\* run has handled every connection it was given and has returned
C16_Witness ==
    /\ ~running
    /\ Len(spawned) = MaxConns
    /\ \A c \in ConnIds : conn[c].st # "None"

----------------------------------------------------------------------------
(* Claims about Command::write_to *)

\* the bytes the sink has received, in order
Wire == Concat([i \in 1..Len(writer.sink) |-> writer.sink[i].bytes])

\* C17: the sink receives one write_all call for each command written, in
\* order; the call carries the version, the type and the whole body of the
\* command in a buffer of serialized_len() bytes that was allocated with that
\* capacity; so the sink's bytes are the encodings of the commands one after
\* the other.
C17_OneWrite ==
    /\ Len(writer.sink) = Len(writer.sent)
    /\ \A i \in 1..Len(writer.sent) :
        LET c == writer.sent[i]
            w == writer.sink[i]
        IN /\ i <= Len(writer.sink)
           /\ Len(w.bytes) = serialized_len(c)
           /\ w.cap = Len(w.bytes)
           /\ w.bytes[1] = TUIC_PROTOCOL_VERSION
           /\ w.bytes = write_to_buf(c, <<>>)
           /\ \A r \in ReadResults(w.bytes, bigEndianHost) :
                r.kind = "Ok" => r.val = c /\ r.consumed = Len(w.bytes)
    /\ Wire = Concat([i \in 1..Len(writer.sent) |-> write_to_buf(writer.sent[i], <<>>)])

\* MaxWrites commands were written, a Packet and then a Heartbeat among them
C17_Witness ==
    /\ Len(writer.sent) = MaxWrites
    /\ \E i \in 1..(MaxWrites - 1) :
        /\ writer.sent[i].type = "Packet"
        /\ writer.sent[i + 1].type = "Heartbeat"

----------------------------------------------------------------------------
(* Claims about the stream around a command *)

\* the encoding of the command the harness wrote
Encoding == write_to_buf(cmd, <<>>)

\* C18: a read_from that returns a command c has consumed serialized_len(c)
\* bytes, all of them on the stream; when the stream is the encoding of a
\* command followed by a payload, the unread bytes are that payload, whose
\* first byte is the next byte of the stream.
C18_ConsumesCommand ==
    (pc = "read" /\ res.kind = "Ok")
    => /\ res.consumed = serialized_len(res.val)
       /\ res.consumed <= Len(buf)
       /\ (cmd # NoCmd /\ Len(buf) >= Len(Encoding))
          => /\ res.consumed = Len(Encoding)
             /\ Drop(buf, res.consumed) \in Payloads \cup {<<>>}
             /\ Encoding \o Drop(buf, res.consumed) = buf

\* a Packet was decoded from a stream that goes on with a payload
C18_Witness ==
    /\ pc = "read"
    /\ res.kind = "Ok"
    /\ res.val.type = "Packet"
    /\ res.val = cmd
    /\ Len(buf) > res.consumed
    /\ buf[res.consumed + 1] = 200

\* the stream read was a proper prefix of the encoding of the command written
ProperPrefix ==
    /\ cmd # NoCmd
    /\ Len(buf) < Len(Encoding)
    /\ buf = Take(Encoding, Len(buf))

\* C19: read_from on a proper prefix of the encoding of a command, the empty
\* stream included, returns an Io error.
C19_TruncatedIsIo ==
    (pc = "read" /\ ProperPrefix)
    => /\ res.kind = "Err"
       /\ res.val.err = "Io"

----------------------------------------------------------------------------
(* Claims about the accept loop *)

\* C20: the connections handed to handlers are the connections yielded, one
\* handler each, in the order they were yielded; a step that takes a
\* connection starts its handler and leaves every other handler as it is;
\* while run is in its loop it can take the next connection whatever state the
\* handlers before it are in; and run leaves its loop only in the step where
\* incoming ends, after which no connection is taken.
C20_SpawnPerConnection ==
    /\ [](/\ spawned = [i \in 1..Len(spawned) |-> i]
          /\ \A c \in ConnIds : (conn[c].st # "None") <=> (c <= Len(spawned)))
    /\ []((running /\ Len(spawned) < MaxConns) => ENABLED RunAccept)
    /\ [][/\ spawned' # spawned
             => /\ running
                /\ spawned' = Append(spawned, Len(spawned) + 1)
                /\ conn'[Len(spawned')].st = "AwaitingAuth"
                /\ \A c \in ConnIds \ {Len(spawned')} : conn'[c] = conn[c]
          /\ running' # running
             => /\ running
                /\ ~running'
                /\ UNCHANGED <<spawned, conn>>]_vars

\* a later connection was accepted, authenticated and served while the one
\* before it still awaits authentication
C20_Witness ==
    \E c \in ConnIds \ {1} :
        /\ running
        /\ conn[c - 1].st = "AwaitingAuth"
        /\ conn[c].st = "Authenticated"
        /\ conn[c].effects # {}
====
